---- MODULE Spec2Model ----
(***************************************************************************)
(* Model of krnl's host-side device layer: crates/krnl/src/device.rs       *)
(* (Features, KernelDesc, KernelBuilder, Kernel) and of the engine it      *)
(* drives.  Values of type Option<T> are sequences of length 0 (None) or 1 *)
(* (Some).  TLC integers are 32-bit, so the widths of u32 and usize are    *)
(* scaled down to U32Bits and U32Bits + 1 bits; every `as u32` of the      *)
(* source is a reduction modulo 2^U32Bits.                                 *)
(***************************************************************************)
EXTENDS Integers, Sequences, FiniteSets, TLC

VARIABLES
    desc,           \* the artifact: the KernelDesc deserialized by from_bytes
    builder,        \* the caller's KernelBuilder
    kernel,         \* the caller's Kernel, None before a build
    cache,          \* the engine's cache of pipelines
    last,           \* the call the caller made last, and its outcome
    callers,        \* the threads building kernels: each one's place in build
    slots,          \* the keys whose pipeline is being built
    misses,         \* the runs of desc_fn so far, in order
    engine_state,   \* each engine's state, "Ready" or "Lost"
    queue,          \* each engine's submissions that have not completed
    clients,        \* the threads using the engines: each one's call
    allocs          \* the device allocations

\* The state of the caller of from_bytes, specialize, build and dispatch.
pipelineVars == <<desc, builder, kernel, last>>

\* The state of the threads that build concurrently.
cacheVars == <<callers, slots, misses>>

\* The state of the engines and of the threads that use them.
engineVars == <<engine_state, queue, clients, allocs>>

vars == <<desc, builder, kernel, cache, last, callers, slots, misses,
          engine_state, queue, clients, allocs>>

\* ------------------------------------------------------------------ bounds

\* scaled width of u32 (the source's is 32)
U32Bits == 3
\* largest workgroup size per dimension in an artifact
MaxThread == 2
\* largest number of slice_descs in an artifact
MaxSlices == 2
\* largest number of push_descs in an artifact
MaxPush == 2
\* largest number of spec_descs in an artifact
MaxSpecs == 1
\* largest number of pipelines the kernel cache is let to hold
MaxCache == 2

\* The threads that build kernels concurrently.
MaxCallers == 2

\* The runs of desc_fn.
MaxMisses == 3

\* The threads that wait, upload and dispatch.
MaxClients == 2

\* The submissions an engine holds that have not completed.
MaxQueue == 2

\* The device allocations.
MaxAllocs == 2

\* The handles (clones) and subslices of one allocation.
MaxHandles == 2

\* The elements of the storage a slice views.
MaxStorage == 3

U32Mod == 2 ^ U32Bits

\* All sequences over S of length lo..hi.
SeqsOf(S, lo, hi) == UNION {[1..n -> S] : n \in lo..hi}

Min(a, b) == IF a < b THEN a ELSE b

None == <<>>
Some(x) == <<x>>

\* ------------------------------------------------------------ scalar types

ScalarTypes == {"U8", "U16", "U32", "U64"}

\* ScalarType::size(): the byte width of a scalar type.
size(scalar_type) ==
    CASE scalar_type = "U8" -> 1
      [] scalar_type = "U16" -> 2
      [] scalar_type = "U32" -> 4
      [] scalar_type = "U64" -> 8

\* The little-endian bytes of v in n bytes.
RECURSIVE LEBytes(_, _)
LEBytes(v, n) == IF n = 0 THEN <<>> ELSE <<v % 256>> \o LEBytes(v \div 256, n - 1)

\* ScalarElem::as_bytes(): a ScalarElem is [scalar_type, value].
as_bytes(elem) == LEBytes(elem.value, size(elem.scalar_type))

U32(v) == [scalar_type |-> "U32", value |-> v]

\* ---------------------------------------------------------------- Features

\* The fields of struct Features.
FeatureFlags ==
    {"shader_int8", "shader_int16", "shader_int64", "shader_float16", "shader_float64"}

\* struct Features: every value Features::empty() and the with_* setters make.
FeatureValues == [FeatureFlags -> BOOLEAN]

\* A contains that leaves shader_float64 out.
Features_contains_NoFloat64(self, other) ==
    /\ (self.shader_int8 \/ ~other.shader_int8)
    /\ (self.shader_int16 \/ ~other.shader_int16)
    /\ (self.shader_int64 \/ ~other.shader_int64)
    /\ (self.shader_float16 \/ ~other.shader_float16)

\* Features::contains(&self, other)
Features_contains(self, other) ==
    /\ (self.shader_int8 \/ ~other.shader_int8)
    /\ (self.shader_int16 \/ ~other.shader_int16)
    /\ (self.shader_int64 \/ ~other.shader_int64)
    /\ (self.shader_float16 \/ ~other.shader_float16)
    /\ (self.shader_float64 \/ ~other.shader_float64)

\* A union that assigns shader_int8 instead of or-ing it.
Features_union_AssignInt8(self, other) ==
    [shader_int8 |-> other.shader_int8,
     shader_int16 |-> self.shader_int16 \/ other.shader_int16,
     shader_int64 |-> self.shader_int64 \/ other.shader_int64,
     shader_float16 |-> self.shader_float16 \/ other.shader_float16,
     shader_float64 |-> self.shader_float64 \/ other.shader_float64]

\* Features::union(self, other)
Features_union(self, other) ==
    [shader_int8 |-> self.shader_int8 \/ other.shader_int8,
     shader_int16 |-> self.shader_int16 \/ other.shader_int16,
     shader_int64 |-> self.shader_int64 \/ other.shader_int64,
     shader_float16 |-> self.shader_float16 \/ other.shader_float16,
     shader_float64 |-> self.shader_float64 \/ other.shader_float64]

\* ------------------------------------------------------------------ slices

\* The compilation targets of krnl-core: cfg(target_arch = "spirv") and
\* cfg(not(target_arch = "spirv")).
Targets == {"spirv", "host"}

\* A slice view is [offset, len]: on spirv the fields offset and len of
\* SliceRepr / UnsafeSliceRepr over the storage inner; on the host inner (or
\* ptr) starts at position offset of the storage and has len elements.  The
\* outcome of an index is tag "ok" and pos, the position of the storage the
\* returned reference is to, or tag "panic" and no position.  offset + index
\* does not overflow for a view that lies in its storage.

\* impl Index<usize> for SliceRepr: index(&self, index).  On the host
\* self.inner.index(index) is the bounds-checked index of a core slice.
SliceRepr_index(target, view, index) ==
    IF target = "spirv"
    THEN IF index < view.len
         THEN [tag |-> "ok", pos |-> Some(view.offset + index)]
         ELSE [tag |-> "panic", pos |-> None]
    ELSE LET inner == [ptr |-> view.offset, len |-> view.len]
         IN  IF index < inner.len
             THEN [tag |-> "ok", pos |-> Some(inner.ptr + index)]
             ELSE [tag |-> "panic", pos |-> None]

\* An unsafe_index whose bound check lets index = len through.
UnsafeSliceRepr_unsafe_index_OffByOne(target, view, index) ==
    IF index <= view.len
    THEN [tag |-> "ok", pos |-> Some(view.offset + index)]
    ELSE [tag |-> "panic", pos |-> None]

\* impl UnsafeIndex<usize> for UnsafeSliceRepr: unsafe_index(&self, index),
\* &*self.ptr.add(index) on the host and
\* self.inner.index_unchecked(self.offset + index) on spirv.
UnsafeSliceRepr_unsafe_index(target, view, index) ==
    IF index < view.len
    THEN [tag |-> "ok", pos |-> Some(view.offset + index)]
    ELSE [tag |-> "panic", pos |-> None]

\* impl UnsafeIndex<usize> for UnsafeSliceRepr: unsafe_index_mut(&self, index),
\* &mut *self.ptr.add(index) on the host and
\* self.inner.index_unchecked_mut_ext(self.offset + index) on spirv.
UnsafeSliceRepr_unsafe_index_mut(target, view, index) ==
    IF index < view.len
    THEN [tag |-> "ok", pos |-> Some(view.offset + index)]
    ELSE [tag |-> "panic", pos |-> None]

\* impl Index<usize> for BufferBase<S>: self.data.index(index)
BufferBase_index(target, view, index) == SliceRepr_index(target, view, index)

\* impl UnsafeIndex<usize> for BufferBase<S>: self.data.unsafe_index(index)
BufferBase_unsafe_index(target, view, index) ==
    UnsafeSliceRepr_unsafe_index(target, view, index)

\* impl UnsafeIndex<usize> for BufferBase<S>: self.data.unsafe_index_mut(index)
BufferBase_unsafe_index_mut(target, view, index) ==
    UnsafeSliceRepr_unsafe_index_mut(target, view, index)

\* The storage of n elements, each its own value.
StorageOf(n) == [p \in 1..n |-> 10 + p]

\* The element a reference to position pos of storage reads: any value when
\* pos is outside the storage.
Deref(storage, pos) ==
    IF pos = None THEN {None}
    ELSE IF pos[1] + 1 \in DOMAIN storage THEN {Some(storage[pos[1] + 1])}
    ELSE {Some(v) : v \in {0, 10 + MaxStorage + 1}}

\* ---------------------------------------------------------------- artifact

\* The dimension letters of KernelBuilder::specialize's error message.
DimLetters == <<"x", "y", "z">>

\* The number of components of a dispatch extent, [u32; 3].
ExtentDims == 3

ThreadSeqs == SeqsOf(1..MaxThread, 1, ExtentDims)

\* struct SpecDesc { name, scalar_type, thread_dim }: a spec tagged with a
\* thread dimension is a U32 (the compiler emits no other, and specialize's
\* else branch is unreachable!()).
SpecDescs ==
    {[scalar_type |-> t, thread_dim |-> None] : t \in {"U32", "U64"}}
        \cup {[scalar_type |-> "U32", thread_dim |-> Some(d)] : d \in 0..(ExtentDims - 1)}

\* struct SliceDesc { name, scalar_type, mutable, item }
SliceDescs == {[item |-> b] : b \in BOOLEAN}

\* struct PushDesc { name, scalar_type }
PushDescs == {[scalar_type |-> t] : t \in ScalarTypes}

\* struct KernelDesc { name, spirv, features, threads, safe, spec_descs,
\* slice_descs, push_descs }.  spirv is kept as its SpecConstant instructions:
\* spirv[k] is the sequence of 32-bit literal operands of the instruction
\* decorated SpecId k - 1 (one word for a 32-bit scalar, two for a 64-bit one).
SpecOperands(spec_descs) ==
    [k \in 1..Len(spec_descs) |->
        [i \in 1..(size(spec_descs[k].scalar_type) \div 4) |-> 0]]

KernelDesc(threads, spec_descs, slice_descs, push_descs) ==
    [threads |-> threads, spec_descs |-> spec_descs,
     slice_descs |-> slice_descs, push_descs |-> push_descs,
     spirv |-> SpecOperands(spec_descs)]

\* ------------------------------------------------------- KernelDesc methods

RECURSIVE SumSizes(_)
SumSizes(push_descs) ==
    IF push_descs = <<>> THEN 0
    ELSE size(Head(push_descs).scalar_type) + SumSizes(Tail(push_descs))

\* A size that is not rounded.
RoundUp4_Identity(n) == n

RECURSIVE RoundUp4(_)
RoundUp4(n) == IF n % 4 # 0 THEN RoundUp4(n + 1) ELSE n

\* KernelDesc::push_consts_range()
push_consts_range(d) ==
    RoundUp4(SumSizes(d.push_descs)) + Len(d.slice_descs) * 2 * 4

\* The u32 whose little-endian bytes are the 4 bytes `bytes`
\* (bytemuck::bytes_of_mut(a).copy_from_slice(bytes)).
RECURSIVE WordOf(_)
WordOf(bytes) ==
    IF bytes = <<>> THEN 0 ELSE Head(bytes) + 256 * WordOf(Tail(bytes))

\* The rewrite of one SpecConstant instruction in KernelDesc::specialize:
\* <<>> when a copy_from_slice panics on a length mismatch or the operands
\* match no arm, else the one-element sequence of the new operands.
RewriteSpecConstant(operands, value) ==
    CASE Len(operands) = 1 ->
            IF Len(as_bytes(value)) = 4 THEN Some(<<WordOf(as_bytes(value))>>)
            ELSE None
      [] Len(operands) = 2 ->
            \* copy_from_slice(&value.as_bytes()[..8]) into the 4 bytes of a
            None
      [] OTHER -> None

\* KernelDesc::specialize(&self, threads, spec_consts)
KernelDesc_specialize(d, threads, spec_consts) ==
    LET rewritten ==
            [k \in 1..Len(d.spirv) |->
                IF k <= Len(spec_consts)
                THEN RewriteSpecConstant(d.spirv[k], spec_consts[k])
                ELSE Some(d.spirv[k])]
    IN  IF \E k \in 1..Len(d.spirv) : rewritten[k] = None
        THEN [tag |-> "panic", desc |-> d]
        ELSE [tag |-> "ok",
              desc |-> [d EXCEPT !.spirv = [k \in 1..Len(d.spirv) |-> rewritten[k][1]],
                                 !.spec_descs = <<>>,
                                 !.threads = threads]]

\* ------------------------------------------------------------ KernelBuilder

\* KernelBuilder::from_bytes: struct KernelBuilder { id, desc, spec_consts,
\* threads }; id and desc are those of the artifact.
from_bytes(d) == [spec_consts |-> <<>>, threads |-> d.threads]

\* The loop of KernelBuilder::specialize from its k-th pair on, threads being
\* self.threads so far.
RECURSIVE SpecializeLoop(_, _, _, _)
SpecializeLoop(d, spec_consts, k, threads) ==
    IF k > Min(Len(spec_consts), Len(d.spec_descs))
    THEN [tag |-> "ok", msg |-> "", threads |-> threads]
    ELSE LET spec_const == spec_consts[k]
             spec_desc == d.spec_descs[k]
         IN  IF spec_const.scalar_type # spec_desc.scalar_type
             THEN [tag |-> "panic", msg |-> "assert_eq", threads |-> threads]
             ELSE IF spec_desc.thread_dim = None
             THEN SpecializeLoop(d, spec_consts, k + 1, threads)
             ELSE LET dim == spec_desc.thread_dim[1]
                  IN  IF spec_const.scalar_type # "U32"
                      THEN [tag |-> "panic", msg |-> "unreachable", threads |-> threads]
                      ELSE IF spec_const.value = 0
                      THEN IF dim + 1 \in DOMAIN DimLetters
                           THEN [tag |-> "err", msg |-> DimLetters[dim + 1],
                                 threads |-> threads]
                           ELSE [tag |-> "panic", msg |-> "index", threads |-> threads]
                      ELSE IF dim + 1 \in DOMAIN threads
                      THEN SpecializeLoop(d, spec_consts, k + 1,
                                          [threads EXCEPT ![dim + 1] = spec_const.value])
                      ELSE [tag |-> "panic", msg |-> "index", threads |-> threads]

\* A specialize that keeps the spec values of the calls before.
KernelBuilder_specialize_NoClear(b, d, spec_consts) ==
    IF Len(spec_consts) # Len(d.spec_descs)
    THEN [tag |-> "panic", msg |-> "assert_eq", builder |-> b]
    ELSE LET r == SpecializeLoop(d, spec_consts, 1, b.threads)
         IN  IF r.tag = "ok"
             THEN [tag |-> "ok", msg |-> "",
                   builder |-> [spec_consts |-> b.spec_consts \o spec_consts,
                                threads |-> r.threads]]
             ELSE [tag |-> r.tag, msg |-> r.msg, builder |-> b]

\* KernelBuilder::specialize(self, spec_consts): tag is "ok" (Ok(self)), "err"
\* (bail!, msg the dimension letter of the message) or "panic".
KernelBuilder_specialize(b, d, spec_consts) ==
    IF Len(spec_consts) # Len(d.spec_descs)
    THEN [tag |-> "panic", msg |-> "assert_eq", builder |-> b]
    ELSE LET r == SpecializeLoop(d, spec_consts, 1, b.threads)
         IN  IF r.tag = "ok"
             THEN [tag |-> "ok", msg |-> "",
                   builder |-> [spec_consts |-> spec_consts, threads |-> r.threads]]
             ELSE [tag |-> r.tag, msg |-> r.msg, builder |-> b]

RECURSIVE FlatBytes(_)
FlatBytes(elems) ==
    IF elems = <<>> THEN <<>> ELSE as_bytes(Head(elems)) \o FlatBytes(Tail(elems))

\* A key that leaves the spec constants out.
KernelKey_IdOnly(id, b, d) == [id |-> id, spec_bytes |-> <<>>]

\* struct KernelKey { id, spec_bytes } as KernelBuilder::build makes it.
KernelKey(id, b, d) ==
    [id |-> id,
     spec_bytes |-> IF d.spec_descs # <<>> THEN FlatBytes(b.spec_consts) ELSE <<>>]

\* A desc_fn that never specializes.
BuildFn_Never(b, d) == [tag |-> "ok", desc |-> d, specialized |-> FALSE]

\* The desc_fn KernelBuilder::build hands to cached(): its outcome, and
\* whether it ran KernelDesc::specialize.
BuildFn(b, d) ==
    IF d.spec_descs # <<>> \/ b.threads # d.threads
    THEN LET r == KernelDesc_specialize(d, b.threads, b.spec_consts)
         IN  [tag |-> r.tag, desc |-> r.desc, specialized |-> TRUE]
    ELSE [tag |-> "ok", desc |-> d, specialized |-> FALSE]

\* A build that asks every builder without spec values to be specialized.
MustBeSpecialized_AnyArtifact(b, d) == b.spec_consts = <<>>

\* Whether KernelBuilder::build bails with "must be specialized!".
MustBeSpecialized(b, d) == d.spec_descs # <<>> /\ b.spec_consts = <<>>

\* The engine's cache of pipelines is the set of its entries [key, desc]: an
\* entry is the Arc<Kernel> the cache holds for the key.
CacheHit(c, key) == \E e \in c : e.key = key

CacheEntry(c, key) == CHOOSE e \in c : e.key = key

\* How DeviceEngineKernel::cached(engine, key, desc_fn) starts, the keys in
\* slots being built by another caller: a hit returns the entry, a caller for
\* a key being built waits for its outcome, the first caller for a missing
\* key takes the key's build slot.
CachedEnter(c, slots_, key) ==
    IF CacheHit(c, key) THEN "hit"
    ELSE IF key \in slots_ THEN "wait"
    ELSE "build"

\* A cache that keeps an entry for a build whatever its outcome.
CachedPublish_Always(c, key, built) ==
    c \cup {[key |-> key, desc |-> built.desc]}

\* The cache after the holder of key's build slot has run desc_fn and built
\* the pipeline, with outcome built: populated when it is Ok, and only then.
CachedPublish(c, key, built) ==
    IF built.tag = "ok"
    THEN c \cup {[key |-> key, desc |-> built.desc]}
    ELSE c

\* The callers woken with the outcome of key's build: those waiting for it.
Woken(callers_, key, built) ==
    {t \in DOMAIN callers_ : callers_[t].pc = "waiting" /\ callers_[t].key = Some(key)}

\* DeviceEngineKernel::cached(engine, key, desc_fn), one caller at a time: a
\* hit returns the entry and leaves desc_fn alone, a miss runs desc_fn and
\* keeps its desc when it is Ok.
cached(c, key, built) ==
    IF CachedEnter(c, {}, key) = "hit"
    THEN [tag |-> "ok", entry |-> Some(CacheEntry(c, key)), cache |-> c, built |-> FALSE]
    ELSE LET c2 == CachedPublish(c, key, built)
         IN  IF CacheHit(c2, key)
             THEN [tag |-> "ok", entry |-> Some(CacheEntry(c2, key)), cache |-> c2,
                   built |-> TRUE]
             ELSE [tag |-> built.tag, entry |-> None, cache |-> c, built |-> TRUE]

\* KernelBuilder::build(&self, device): device is None (the host) or Some(engine).
\* The result holds the Kernel { inner, groups: None } when tag is "ok", the
\* cache afterwards, whether the cache was consulted, whether it ran desc_fn
\* and whether desc_fn ran specialize.
KernelBuilder_build(b, d, id, device, c) ==
    IF device = None
    THEN [tag |-> "err", msg |-> "expected device, found host", kernel |-> None,
          cache |-> c, consulted |-> FALSE, ran |-> FALSE, specialized |-> FALSE]
    ELSE IF MustBeSpecialized(b, d)
    THEN [tag |-> "err", msg |-> "must be specialized", kernel |-> None,
          cache |-> c, consulted |-> FALSE, ran |-> FALSE, specialized |-> FALSE]
    ELSE LET key == KernelKey(id, b, d)
             r == cached(c, key, BuildFn(b, d))
             specialized == r.built /\ BuildFn(b, d).specialized
         IN  IF r.tag = "ok"
             THEN [tag |-> "ok", msg |-> "",
                   kernel |-> Some([key |-> key, desc |-> r.entry[1].desc,
                                    engine |-> device[1], groups |-> None]),
                   cache |-> r.cache, consulted |-> TRUE, ran |-> r.built,
                   specialized |-> specialized]
             ELSE [tag |-> r.tag, msg |-> "desc_fn", kernel |-> None,
                   cache |-> r.cache, consulted |-> TRUE, ran |-> r.built,
                   specialized |-> specialized]

\* ------------------------------------------------------------------- Kernel

\* A division that rounds down.
GroupsOf_Floor(gt, t) == gt \div t

\* The number of workgroups that cover gt threads with t threads each:
\* gt / t + if gt % t != 0 { 1 } else { 0 }.
GroupsOf(gt, t) == (gt \div t) + (IF gt % t # 0 THEN 1 ELSE 0)

\* global_threads_to_groups(global_threads, threads): the zip stops at the
\* shortest of global_threads, the 3 groups and threads.
global_threads_to_groups(global_threads, threads) ==
    [i \in 1..ExtentDims |->
        IF i <= Min(Len(global_threads), Len(threads))
        THEN GroupsOf(global_threads[i], threads[i])
        ELSE 1]

\* Kernel::global_threads(self, global_threads)
Kernel_global_threads(k, global_threads) ==
    [k EXCEPT !.groups = Some(global_threads_to_groups(global_threads, k.desc.threads))]

\* Kernel::groups(self, groups): groups has at most 3 components.
Kernel_groups(k, groups) ==
    [k EXCEPT !.groups =
        Some([i \in 1..ExtentDims |-> IF i <= Len(groups) THEN groups[i] ELSE 1])]

\* The loop of Kernel::dispatch over slices zipped with slice_descs, from the
\* i-th pair on.  A slice argument is [engine, buf, len]: engine is None for a
\* host slice (device_buffer() is None), else Some(the engine of its buffer).
RECURSIVE DispatchLoop(_, _, _, _, _)
DispatchLoop(k, slices, i, buffers, items) ==
    IF i > Min(Len(slices), Len(k.desc.slice_descs))
    THEN [tag |-> "ok", msg |-> "", slice |-> 0, device |-> None,
          buffer_device |-> None, buffers |-> buffers, items |-> items]
    ELSE LET slice == slices[i]
             slice_desc == k.desc.slice_descs[i]
         IN  IF slice.engine = None
             THEN [tag |-> "err", msg |-> "expected device, found host", slice |-> i,
                   device |-> None, buffer_device |-> None,
                   buffers |-> buffers, items |-> items]
             ELSE IF slice.engine[1] # k.engine
             THEN [tag |-> "err", msg |-> "expected device, found other device",
                   slice |-> i, device |-> Some(k.engine),
                   buffer_device |-> slice.engine,
                   buffers |-> buffers, items |-> items]
             ELSE DispatchLoop(k, slices, i + 1, Append(buffers, slice.buf),
                               IF slice_desc.item
                               THEN IF items # None
                                    THEN Some(Min(items[1], slice.len))
                                    ELSE Some(slice.len)
                               ELSE items)

\* The push_bytes of Kernel::dispatch: push_consts zipped with push_descs.
RECURSIVE PushBytes(_, _)
PushBytes(push_consts, push_descs) ==
    IF push_consts = <<>> \/ push_descs = <<>> THEN <<>>
    ELSE as_bytes(Head(push_consts)) \o PushBytes(Tail(push_consts), Tail(push_descs))

\* A check of threads.y alone.
ThreadsYZ_OnlyY(threads) == Len(threads) >= 2 /\ threads[2] > 1

\* desc.threads.iter().skip(1).any(|t| *t > 1)
ThreadsYZ(threads) == \E i \in 2..Len(threads) : threads[i] > 1

\* `items as u32`
AsU32(n) == n % U32Mod

\* An extent resolution that falls back to one workgroup.
ResolveGroups_DefaultOne(k, items) ==
    IF k.groups # None
    THEN [tag |-> "ok", msg |-> "", groups |-> k.groups[1]]
    ELSE IF items # None /\ ~(\E i \in 2..Len(k.desc.threads) : k.desc.threads[i] > 1)
    THEN [tag |-> "ok", msg |-> "",
          groups |-> <<((items[1] % U32Mod) + k.desc.threads[1] - 1)
                            \div k.desc.threads[1], 1, 1>>]
    ELSE [tag |-> "ok", msg |-> "", groups |-> <<1, 1, 1>>]

\* The groups Kernel::dispatch resolves: tag "ok" and the groups, or the error.
ResolveGroups(k, items) ==
    IF k.groups # None
    THEN [tag |-> "ok", msg |-> "", groups |-> k.groups[1]]
    ELSE IF items # None
    THEN IF ThreadsYZ(k.desc.threads)
         THEN [tag |-> "err", msg |-> "threads.y > 1 or threads.z > 1",
               groups |-> <<>>]
         ELSE [tag |-> "ok", msg |-> "",
               groups |-> global_threads_to_groups(<<AsU32(items[1])>>,
                                                   <<k.desc.threads[1]>>)]
    ELSE [tag |-> "err", msg |-> "global_threads or groups not provided",
          groups |-> <<>>]

\* A dispatch that hands the call to the engine before it looks at the
\* slices and the extent.
Kernel_dispatch_SubmitFirst(k, slices, push_consts, engine_result) ==
    LET l == DispatchLoop(k, slices, 1, <<>>, None)
        g == ResolveGroups(k, l.items)
        call == [groups |-> IF g.tag = "ok" THEN g.groups ELSE <<1, 1, 1>>,
                 buffers |-> l.buffers,
                 push_consts |-> PushBytes(push_consts, k.desc.push_descs)]
    IN  IF l.tag # "ok"
        THEN [tag |-> l.tag, msg |-> l.msg, slice |-> l.slice, device |-> l.device,
              buffer_device |-> l.buffer_device, engine_calls |-> <<call>>]
        ELSE IF g.tag # "ok"
        THEN [tag |-> g.tag, msg |-> g.msg, slice |-> 0, device |-> None,
              buffer_device |-> None, engine_calls |-> <<call>>]
        ELSE [tag |-> IF engine_result = "ok" THEN "ok" ELSE "err",
              msg |-> IF engine_result = "ok" THEN "" ELSE engine_result,
              slice |-> 0, device |-> None, buffer_device |-> None,
              engine_calls |-> <<call>>]

\* Kernel::dispatch(&self, slices, push_consts).  engine_calls holds the calls
\* of self.inner.dispatch(groups, &buffers, push_bytes) made, and engine_result
\* is what the engine answers to one.
Kernel_dispatch(k, slices, push_consts, engine_result) ==
    LET l == DispatchLoop(k, slices, 1, <<>>, None)
        g == ResolveGroups(k, l.items)
    IN  IF l.tag # "ok"
        THEN [tag |-> l.tag, msg |-> l.msg, slice |-> l.slice, device |-> l.device,
              buffer_device |-> l.buffer_device, engine_calls |-> <<>>]
        ELSE IF g.tag # "ok"
        THEN [tag |-> g.tag, msg |-> g.msg, slice |-> 0, device |-> None,
              buffer_device |-> None, engine_calls |-> <<>>]
        ELSE [tag |-> IF engine_result = "ok" THEN "ok" ELSE "err",
              msg |-> IF engine_result = "ok" THEN "" ELSE engine_result,
              slice |-> 0, device |-> None, buffer_device |-> None,
              engine_calls |->
                  <<[groups |-> g.groups, buffers |-> l.buffers,
                     push_consts |-> PushBytes(push_consts, k.desc.push_descs)]>>]

\* ------------------------------------------------------------------- Engine

\* DeviceInfo.index of engine e: its index in the list of physical devices.
EngineIndex(e) == e - 1

\* DeviceEngine::handle() of engine e: the identifier it took at construction.
EngineHandle(e) == e

\* struct DeviceLost { index, handle } of engine e.
DeviceLost(e) == [index |-> EngineIndex(e), handle |-> EngineHandle(e)]

\* DeviceEngine::wait() when it is called, on an engine in state state with
\* the submissions q pending: DeviceLost on a lost engine, Ok when nothing is
\* pending, and else the caller blocks.
Engine_wait(state, q) ==
    IF state = "Lost" THEN "DeviceLost"
    ELSE IF q = <<>> THEN "ok"
    ELSE "block"

\* What an engine in state state answers to an upload or a dispatch whose
\* submission fails fatally or not.
Engine_submit(state, fatal) ==
    IF state = "Lost" \/ fatal THEN "DeviceLost" ELSE "ok"

\* A wait that answers Ok whatever the engine says.
Device_wait_AlwaysOk(device, engine_wait) == "ok"

\* Device::wait(&self): Ok(()) on the host, else what the engine's wait() says.
Device_wait(device, engine_wait) ==
    IF device = None THEN "ok" ELSE engine_wait

\* The client c when its call on engine e returns result.
ClientDone(c, result, e) ==
    [c EXCEPT !.pc = "done", !.result = result,
              !.error = IF result = "DeviceLost" THEN Some(DeviceLost(e)) ELSE None]

\* The clients after engine e has entered Lost: those blocked in its wait()
\* are woken with DeviceLost.
WakeLost(cl, e) ==
    [t \in DOMAIN cl |->
        IF cl[t].pc = "waiting" /\ cl[t].device = Some(e)
        THEN ClientDone(cl[t], Device_wait(Some(e), "DeviceLost"), e)
        ELSE cl[t]]

\* The clients after a submission of engine e has completed: a waiter that
\* has seen all the submissions it observed complete is woken with Ok.
WakeCompleted(cl, e) ==
    [t \in DOMAIN cl |->
        IF cl[t].pc = "waiting" /\ cl[t].device = Some(e)
        THEN IF cl[t].observed <= 1
             THEN ClientDone([cl[t] EXCEPT !.observed = 0], Device_wait(Some(e), "ok"), e)
             ELSE [cl[t] EXCEPT !.observed = @ - 1]
        ELSE cl[t]]

\* The allocations the submissions q reference.
Referenced(q) == UNION {q[i] : i \in 1..Len(q)}

\* A release that does not look at the pending submissions.
Releasable_WhenRetired(al, q, a) == al[a].state = "retired"

\* Whether the allocation a is released now: it is retired (its last handle
\* has dropped) and no pending submission references it.
Releasable(al, q, a) == al[a].state = "retired" /\ a \notin Referenced(q)

\* The allocations after the deferred releases of engine e, q its pending
\* submissions.
Release(al, q, e) ==
    [a \in DOMAIN al |->
        IF al[a].engine = Some(e) /\ Releasable(al, q, a)
        THEN [al[a] EXCEPT !.state = "freed"]
        ELSE al[a]]

\* The allocation after one of its handles or subslices has dropped: retired
\* when none is left.
Dropped(alloc) ==
    IF alloc.handles + alloc.subslices = 0
    THEN [alloc EXCEPT !.state = "retired"]
    ELSE alloc

\* ------------------------------------------------------------------ inputs

\* The engine a kernel is built on, and another one.
KernelEngine == 1
OtherEngine == 2

\* The id (address) of the artifact's bytes.
ArtifactId == 1

\* The engines: the one kernels are built on, and another.
Engines == {KernelEngine, OtherEngine}

\* The slices a caller of kernel k has: on the kernel's engine, of a length a
\* u32 holds and of one it does not, at the offsets; with foreign, also a host
\* slice and a slice on another engine.
SliceShapes(k, offsets, foreign) ==
    {[engine |-> Some(k.engine), offset |-> o, len |-> l] :
        o \in offsets, l \in {3, U32Mod + 1}}
        \cup (IF foreign
              THEN {[engine |-> None, offset |-> 0, len |-> 3]}
                    \cup {[engine |-> Some(e), offset |-> 0, len |-> 3] :
                            e \in Engines \ {k.engine}}
              ELSE {})

\* The argument lists of lo..hi slices over shapes; the i-th slice views buffer i.
SliceArgs(shapes, lo, hi) ==
    UNION {{[i \in 1..n |-> [engine |-> sh[i].engine, buf |-> i,
                             offset |-> sh[i].offset, len |-> sh[i].len]] :
                sh \in [1..n -> shapes]} : n \in lo..hi}

\* Push constant values of a type.
PushVals(scalar_type) == IF scalar_type = "U8" THEN {7} ELSE {258}

\* The push constant lists of n values whose types are those of push_descs
\* (debug_assert_eq!(push.scalar_type(), push_desc.scalar_type)), U32 beyond.
RECURSIVE PushArgsN(_, _)
PushArgsN(push_descs, n) ==
    IF n = 0 THEN {<<>>}
    ELSE LET t == IF n <= Len(push_descs) THEN push_descs[n].scalar_type ELSE "U32"
         IN  {Append(p, [scalar_type |-> t, value |-> v]) :
                p \in PushArgsN(push_descs, n - 1), v \in PushVals(t)}

PushArgs(push_descs, lo, hi) == UNION {PushArgsN(push_descs, n) : n \in lo..hi}

\* Spec constant values: a U32 is 0, 1 or more than any default workgroup
\* size, a U64 is any.
SpecVals(scalar_type) == IF scalar_type = "U32" THEN {0, 1, MaxThread + 1} ELSE {5}

\* The spec constant lists of n values whose types are those of spec_descs
\* (assert_eq!(spec_const.scalar_type(), spec_desc.scalar_type)), U32 beyond.
RECURSIVE SpecArgsN(_, _)
SpecArgsN(spec_descs, n) ==
    IF n = 0 THEN {<<>>}
    ELSE LET t == IF n <= Len(spec_descs) THEN spec_descs[n].scalar_type ELSE "U32"
         IN  {Append(p, [scalar_type |-> t, value |-> v]) :
                p \in SpecArgsN(spec_descs, n - 1), v \in SpecVals(t)}

SpecArgs(spec_descs) == UNION {SpecArgsN(spec_descs, n) : n \in 0..MaxSpecs}

\* The threads that build kernels.
Callers == 1..MaxCallers

\* A caller that is not in build.
IdleCaller ==
    [pc |-> "idle", builder |-> None, key |-> None, tag |-> "", msg |-> "",
     pipeline |-> None, served |-> 0]

\* The builders a caller has for the artifact d: the one from_bytes returns,
\* and each one specialize returns Ok.
CallerBuilders(d) ==
    {from_bytes(d)} \cup
    {KernelBuilder_specialize(from_bytes(d), d, spec_consts).builder :
        spec_consts \in {sc \in SpecArgs(d.spec_descs) :
            KernelBuilder_specialize(from_bytes(d), d, sc).tag = "ok"}}

\* The threads that use the engines.
Clients == 1..MaxClients

AllocIds == 1..MaxAllocs

\* A client that is in no call.
IdleClient ==
    [pc |-> "idle", op |-> "", device |-> None, result |-> "", error |-> None,
     observed |-> 0, lost_at_call |-> FALSE, reached |-> FALSE]

\* An allocation that has not been made.
NoAlloc == [state |-> "none", engine |-> None, handles |-> 0, subslices |-> 0]

\* The engines and their threads after construction.
EngineInit ==
    /\ engine_state = [e \in Engines |-> "Ready"]
    /\ queue = [e \in Engines |-> <<>>]
    /\ clients = [t \in Clients |-> IdleClient]
    /\ allocs = [a \in AllocIds |-> NoAlloc]

\* The slices a client has for a dispatch of kernel k: a host slice, and a
\* slice of each allocation it holds a handle or a subslice of.
ClientSlices(k, al) ==
    [1..Len(k.desc.slice_descs) ->
        {[engine |-> None, buf |-> 0, offset |-> 0, len |-> 3]} \cup
        {[engine |-> al[a].engine, buf |-> a, offset |-> 0, len |-> 3] :
            a \in {x \in DOMAIN al : al[x].state = "live"}}]

\* The set of the elements of a sequence.
Range(seq) == {seq[i] : i \in 1..Len(seq)}

\* ----------------------------------------------------------------- actions

InitOf(artifacts) ==
    /\ desc \in artifacts
    /\ builder = from_bytes(desc)
    /\ kernel = None
    /\ cache = {}
    /\ last = [op |-> "none"]
    /\ callers = [t \in Callers |-> IdleCaller]
    /\ slots = {}
    /\ misses = <<>>
    /\ EngineInit

\* The state after from_bytes and a build on the kernel's engine.
InitBuilt(artifacts) ==
    /\ desc \in artifacts
    /\ builder = from_bytes(desc)
    /\ LET r == KernelBuilder_build(builder, desc, ArtifactId, Some(KernelEngine), {})
       IN  kernel = r.kernel /\ cache = r.cache
    /\ last = [op |-> "none"]
    /\ callers = [t \in Callers |-> IdleCaller]
    /\ slots = {}
    /\ misses = <<>>
    /\ EngineInit

\* No call is in progress: the caller has seen the outcome of the last one.
Idle == last.op = "none"

\* The caller takes the outcome of its call.
Return ==
    /\ ~Idle
    /\ last' = [op |-> "none"]
    /\ UNCHANGED <<desc, builder, kernel, cache, cacheVars, engineVars>>

\* builder.clone().specialize(spec_consts), the result replacing the builder
\* when it is Ok.
Specialize ==
    /\ Idle
    /\ \E spec_consts \in SpecArgs(desc.spec_descs) :
        LET r == KernelBuilder_specialize(builder, desc, spec_consts)
        IN  /\ builder' = r.builder
            /\ last' = [op |-> "specialize", spec_consts |-> spec_consts,
                        before |-> builder, tag |-> r.tag, msg |-> r.msg]
            /\ UNCHANGED <<desc, kernel, cache, cacheVars, engineVars>>

\* builder.build(device)
Build ==
    /\ Idle
    /\ \E device \in {None, Some(KernelEngine)} :
        LET r == KernelBuilder_build(builder, desc, ArtifactId, device, cache)
        IN  /\ Cardinality(r.cache) <= MaxCache
            /\ kernel' = IF r.tag = "ok" THEN r.kernel ELSE kernel
            /\ cache' = r.cache
            /\ last' = [op |-> "build", device |-> device, tag |-> r.tag,
                        msg |-> r.msg, consulted |-> r.consulted,
                        ran |-> r.ran, specialized |-> r.specialized,
                        cache_before |-> cache]
            /\ UNCHANGED <<desc, builder, cacheVars, engineVars>>

\* kernel.groups(groups): debug_assert_eq!(groups.len(), threads.len())
Groups(vals) ==
    /\ Idle
    /\ kernel # None
    /\ \E groups \in [1..Len(kernel[1].desc.threads) -> vals] :
        /\ kernel' = Some(Kernel_groups(kernel[1], groups))
        /\ last' = [op |-> "groups", arg |-> groups, before |-> kernel[1]]
    /\ UNCHANGED <<desc, builder, cache, cacheVars, engineVars>>

\* kernel.global_threads(global_threads):
\* debug_assert_eq!(global_threads.len(), threads.len())
GlobalThreads(vals) ==
    /\ Idle
    /\ kernel # None
    /\ \E global_threads \in [1..Len(kernel[1].desc.threads) -> vals] :
        /\ kernel' = Some(Kernel_global_threads(kernel[1], global_threads))
        /\ last' = [op |-> "global_threads", arg |-> global_threads,
                    before |-> kernel[1]]
    /\ UNCHANGED <<desc, builder, cache, cacheVars, engineVars>>

\* kernel.dispatch(slices, push_consts)
Dispatch(offsets, foreign, extra, push_lo, push_extra) ==
    /\ Idle
    /\ kernel # None
    /\ \E slices \in SliceArgs(SliceShapes(kernel[1], offsets, foreign), 0,
                                Len(kernel[1].desc.slice_descs) + extra),
          push_consts \in PushArgs(kernel[1].desc.push_descs,
                                   push_lo * Len(kernel[1].desc.push_descs),
                                   Len(kernel[1].desc.push_descs) + push_extra),
          engine_result \in {"ok", "DeviceLost"} :
        LET r == Kernel_dispatch(kernel[1], slices, push_consts, engine_result)
        IN  last' = [op |-> "dispatch", slices |-> slices,
                     push_consts |-> push_consts, tag |-> r.tag, msg |-> r.msg,
                     slice |-> r.slice, device |-> r.device,
                     buffer_device |-> r.buffer_device,
                     engine_calls |-> r.engine_calls]
    /\ UNCHANGED <<desc, builder, kernel, cache, cacheVars, engineVars>>

\* a.contains(&b), for any two Features.
Contains ==
    /\ Idle
    /\ \E a \in FeatureValues, b \in FeatureValues :
        last' = [op |-> "contains", self |-> a, other |-> b,
                 result |-> Features_contains(a, b)]
    /\ UNCHANGED <<desc, builder, kernel, cache, cacheVars, engineVars>>

\* a.union(&b) and b.union(&a), for any two Features.
Union ==
    /\ Idle
    /\ \E a \in FeatureValues, b \in FeatureValues :
        last' = [op |-> "union", self |-> a, other |-> b,
                 result |-> Features_union(a, b),
                 swapped |-> Features_union(b, a)]
    /\ UNCHANGED <<desc, builder, kernel, cache, cacheVars, engineVars>>

\* A call of op on a view [offset, len] that lies in a storage of n elements,
\* with an index inside or outside the view, r being its outcome.
IndexCall(op, n, target, view, index, r) ==
    /\ Idle
    /\ \E value \in Deref(StorageOf(n), r.pos) :
        last' = [op |-> op, target |-> target, storage |-> StorageOf(n),
                 offset |-> view.offset, len |-> view.len, index |-> index,
                 tag |-> r.tag, pos |-> r.pos, value |-> value]
    /\ UNCHANGED <<desc, builder, kernel, cache, cacheVars, engineVars>>

\* slice[index], for a Slice
SliceIndex ==
    \E n \in 1..MaxStorage, target \in Targets :
        \E offset \in 0..n, len \in 0..n, index \in 0..(n + 1) :
            /\ offset + len <= n
            /\ LET view == [offset |-> offset, len |-> len]
               IN  IndexCall("index", n, target, view, index,
                             BufferBase_index(target, view, index))

\* slice.unsafe_index(index), for an UnsafeSlice
SliceUnsafeIndex ==
    \E n \in 1..MaxStorage, target \in Targets :
        \E offset \in 0..n, len \in 0..n, index \in 0..(n + 1) :
            /\ offset + len <= n
            /\ LET view == [offset |-> offset, len |-> len]
               IN  IndexCall("unsafe_index", n, target, view, index,
                             BufferBase_unsafe_index(target, view, index))

\* slice.unsafe_index_mut(index), for an UnsafeSlice
SliceUnsafeIndexMut ==
    \E n \in 1..MaxStorage, target \in Targets :
        \E offset \in 0..n, len \in 0..n, index \in 0..(n + 1) :
            /\ offset + len <= n
            /\ LET view == [offset |-> offset, len |-> len]
               IN  IndexCall("unsafe_index_mut", n, target, view, index,
                             BufferBase_unsafe_index_mut(target, view, index))

\* Caller t starts builder.build(device) on the engine, with one of its
\* builders: the "must be specialized" check, the key, and the start of
\* cached(): a hit returns at once, a caller for a key being built waits, the
\* first caller for a missing key takes the key's build slot.
BuildEnter(t) ==
    /\ callers[t].pc = "idle"
    /\ \E b \in CallerBuilders(desc) :
        LET key == KernelKey(ArtifactId, b, desc)
            how == CachedEnter(cache, slots, key)
            call == [IdleCaller EXCEPT !.builder = Some(b)]
        IN  IF MustBeSpecialized(b, desc)
            THEN /\ callers' = [callers EXCEPT ![t] =
                        [call EXCEPT !.pc = "done", !.tag = "err",
                                     !.msg = "must be specialized"]]
                 /\ slots' = slots
            ELSE /\ how = "build" => Len(misses) + Cardinality(slots) < MaxMisses
                 /\ callers' = [callers EXCEPT ![t] =
                        CASE how = "hit" ->
                                [call EXCEPT !.pc = "done", !.key = Some(key), !.tag = "ok",
                                             !.pipeline = Some(CacheEntry(cache, key))]
                          [] how = "wait" ->
                                [call EXCEPT !.pc = "waiting", !.key = Some(key)]
                          [] OTHER ->
                                [call EXCEPT !.pc = "building", !.key = Some(key)]]
                 /\ slots' = IF how = "build" THEN slots \cup {key} ELSE slots
    /\ UNCHANGED <<cache, misses, pipelineVars, engineVars>>

\* Caller t, holding its key's build slot, runs desc_fn and the pipeline is
\* constructed, which succeeds or fails; the outcome goes to the cache, to t
\* and to the callers waiting for the key, and the slot is given up.
BuildFinish(t) ==
    /\ callers[t].pc = "building"
    /\ \E pipeline_result \in {"ok", "err"} :
        LET b == callers[t].builder[1]
            key == callers[t].key[1]
            desc_result == BuildFn(b, desc)
            built == IF desc_result.tag = "ok" /\ pipeline_result = "ok"
                     THEN desc_result
                     ELSE [tag |-> "err", desc |-> desc_result.desc]
            c2 == CachedPublish(cache, key, built)
            woken == Woken(callers, key, built) \cup {t}
        IN  /\ cache' = c2
            /\ slots' = slots \ {key}
            /\ misses' = Append(misses, [key |-> key, builder |-> b, tag |-> built.tag])
            /\ callers' =
                [u \in Callers |->
                    IF u \in woken
                    THEN [callers[u] EXCEPT
                            !.pc = "done", !.tag = built.tag,
                            !.msg = IF built.tag = "ok" THEN "" ELSE "build failed",
                            !.pipeline = IF built.tag = "ok"
                                         THEN Some(CacheEntry(c2, key)) ELSE None,
                            !.served = Len(misses) + 1]
                    ELSE callers[u]]
    /\ UNCHANGED <<pipelineVars, engineVars>>

\* Caller t takes the outcome of its build, and drops the kernel.
BuildReturn(t) ==
    /\ callers[t].pc = "done"
    /\ callers' = [callers EXCEPT ![t] = IdleCaller]
    /\ UNCHANGED <<cache, slots, misses, pipelineVars, engineVars>>

\* Client t calls device.wait(), on the host or on an engine.
ClientWait(t) ==
    /\ clients[t].pc = "idle"
    /\ \E device \in {None} \cup {Some(e) : e \in Engines} :
        LET e == IF device = None THEN KernelEngine ELSE device[1]
            call == [IdleClient EXCEPT
                        !.op = "wait", !.device = device, !.reached = device # None,
                        !.lost_at_call = device # None /\ engine_state[e] = "Lost"]
            r == Device_wait(device, Engine_wait(engine_state[e], queue[e]))
        IN  clients' = [clients EXCEPT ![t] =
                IF r = "block"
                THEN [call EXCEPT !.pc = "waiting", !.observed = Len(queue[e])]
                ELSE ClientDone(call, r, e)]
    /\ UNCHANGED <<engine_state, queue, allocs, cache, pipelineVars, cacheVars>>

\* Client t calls DeviceBuffer::upload(device, data) on the kernel's device:
\* on a ready engine the
\* buffer is allocated and its copy submitted, unless the submission fails
\* fatally, which loses the engine.
ClientUpload(t, faults) ==
    /\ clients[t].pc = "idle"
    /\ \E fatal \in {f \in BOOLEAN : faults \/ ~f} :
        LET e == KernelEngine
            call == [IdleClient EXCEPT
                        !.op = "upload", !.device = Some(e), !.reached = TRUE,
                        !.lost_at_call = engine_state[e] = "Lost"]
            r == Engine_submit(engine_state[e], fatal)
        IN  IF r = "ok"
            THEN \E a \in AllocIds :
                    /\ allocs[a].state = "none"
                    /\ \A b \in AllocIds : allocs[b].state = "none" => a <= b
                    /\ Len(queue[e]) < MaxQueue
                    /\ allocs' = [allocs EXCEPT ![a] =
                            [state |-> "live", engine |-> Some(e),
                             handles |-> 1, subslices |-> 0]]
                    /\ queue' = [queue EXCEPT ![e] = Append(@, {a})]
                    /\ engine_state' = engine_state
                    /\ clients' = [clients EXCEPT ![t] = ClientDone(call, r, e)]
            ELSE /\ engine_state' = [engine_state EXCEPT ![e] = "Lost"]
                 /\ clients' = [WakeLost(clients, e) EXCEPT ![t] = ClientDone(call, r, e)]
                 /\ UNCHANGED <<queue, allocs>>
    /\ UNCHANGED <<cache, pipelineVars, cacheVars>>

\* Client t calls kernel.dispatch(slices, &[]): a call that passes the checks
\* of Kernel::dispatch is handed to the engine, which submits it, unless it
\* is lost or the submission fails fatally, which loses it.
ClientDispatch(t, faults) ==
    /\ clients[t].pc = "idle"
    /\ kernel # None
    /\ \E slices \in ClientSlices(kernel[1], allocs),
          fatal \in {f \in BOOLEAN : faults \/ ~f} :
        LET e == kernel[1].engine
            call == [IdleClient EXCEPT
                        !.op = "dispatch", !.device = Some(e),
                        !.lost_at_call = engine_state[e] = "Lost"]
            r == Kernel_dispatch(kernel[1], slices, <<>>,
                                 Engine_submit(engine_state[e], fatal))
        IN  IF r.engine_calls = <<>>
            THEN /\ clients' = [clients EXCEPT ![t] = ClientDone(call, r.msg, e)]
                 /\ UNCHANGED <<engine_state, queue>>
            ELSE IF r.tag = "ok"
            THEN /\ Len(queue[e]) < MaxQueue
                 /\ queue' = [queue EXCEPT ![e] =
                                Append(@, Range(r.engine_calls[1].buffers))]
                 /\ clients' = [clients EXCEPT ![t] =
                                ClientDone([call EXCEPT !.reached = TRUE], "ok", e)]
                 /\ UNCHANGED engine_state
            ELSE /\ engine_state' = [engine_state EXCEPT ![e] = "Lost"]
                 /\ clients' = [WakeLost(clients, e) EXCEPT ![t] =
                                ClientDone([call EXCEPT !.reached = TRUE], r.msg, e)]
                 /\ UNCHANGED queue
    /\ UNCHANGED <<allocs, cache, pipelineVars, cacheVars>>

\* Client t takes the outcome of its call.
ClientReturn(t) ==
    /\ clients[t].pc = "done"
    /\ clients' = [clients EXCEPT ![t] = IdleClient]
    /\ UNCHANGED <<engine_state, queue, allocs, cache, pipelineVars, cacheVars>>

\* The progress worker of the ready engine e: the oldest pending submission
\* completes, the waiters that observed it are told, and the deferred
\* releases run.
Progress(e) ==
    /\ engine_state[e] = "Ready"
    /\ \/ queue[e] # <<>>
       \/ \E a \in AllocIds : allocs[a].engine = Some(e) /\ Releasable(allocs, queue[e], a)
    /\ LET q == IF queue[e] = <<>> THEN <<>> ELSE Tail(queue[e])
       IN  /\ queue' = [queue EXCEPT ![e] = q]
           /\ clients' = IF queue[e] = <<>> THEN clients ELSE WakeCompleted(clients, e)
           /\ allocs' = Release(allocs, q, e)
    /\ UNCHANGED <<engine_state, cache, pipelineVars, cacheVars>>

\* The device of engine e is lost.
DeviceLostEvent(e) ==
    /\ engine_state[e] = "Ready"
    /\ engine_state' = [engine_state EXCEPT ![e] = "Lost"]
    /\ clients' = WakeLost(clients, e)
    /\ UNCHANGED <<queue, allocs, cache, pipelineVars, cacheVars>>

\* A handle of the allocation a is cloned.
CloneHandle(a) ==
    /\ allocs[a].state = "live"
    /\ allocs[a].handles >= 1
    /\ allocs[a].handles + allocs[a].subslices < MaxHandles
    /\ allocs' = [allocs EXCEPT ![a].handles = @ + 1]
    /\ UNCHANGED <<engine_state, queue, clients, cache, pipelineVars, cacheVars>>

\* A handle or a subslice of the allocation a is sliced: the subslice shares
\* the allocation.
Subslice(a) ==
    /\ allocs[a].state = "live"
    /\ allocs[a].handles + allocs[a].subslices < MaxHandles
    /\ allocs' = [allocs EXCEPT ![a].subslices = @ + 1]
    /\ UNCHANGED <<engine_state, queue, clients, cache, pipelineVars, cacheVars>>

\* A handle of the allocation a is dropped.
DropHandle(a) ==
    /\ allocs[a].state = "live"
    /\ allocs[a].handles >= 1
    /\ allocs' = [allocs EXCEPT ![a] = Dropped([@ EXCEPT !.handles = @ - 1])]
    /\ UNCHANGED <<engine_state, queue, clients, cache, pipelineVars, cacheVars>>

\* A subslice of the allocation a is dropped.
DropSubslice(a) ==
    /\ allocs[a].state = "live"
    /\ allocs[a].subslices >= 1
    /\ allocs' = [allocs EXCEPT ![a] = Dropped([@ EXCEPT !.subslices = @ - 1])]
    /\ UNCHANGED <<engine_state, queue, clients, cache, pipelineVars, cacheVars>>

\* ---------------------------------------------------------- specifications

\* Extents and bindings: every workgroup size and slice_descs, one push
\* constant, no spec constants.
ExtentArtifacts ==
    {KernelDesc(t, <<>>, s, <<[scalar_type |-> "U8"]>>) :
        t \in ThreadSeqs, s \in SeqsOf(SliceDescs, 0, MaxSlices)}

Init == InitOf(ExtentArtifacts)

Next ==
    \/ Build
    \/ Groups({1, 2})
    \/ GlobalThreads({0, 3})
    \/ Dispatch({0}, TRUE, 1, 1, 0)
    \/ Return

Spec == Init /\ [][Next]_vars

\* Push constants: every push_descs, item slices only, one workgroup size, no
\* spec constants; slices on the kernel's engine, at two offsets.
PushArtifacts ==
    {KernelDesc(<<2>>, <<>>, s, p) :
        s \in SeqsOf({[item |-> TRUE]}, 0, MaxSlices),
        p \in SeqsOf(PushDescs, 0, MaxPush)}

InitPush == InitOf(PushArtifacts)

NextPush ==
    \/ Build
    \/ Groups({2})
    \/ Dispatch({0, 2}, FALSE, 0, 0, 1)
    \/ Return

SpecPush == InitPush /\ [][NextPush]_vars

\* Builders: every workgroup size and spec_descs, one item slice.
BuilderArtifacts ==
    {KernelDesc(t, sp, <<[item |-> TRUE]>>, <<>>) :
        t \in ThreadSeqs, sp \in SeqsOf(SpecDescs, 0, MaxSpecs)}

InitBuilder == InitOf(BuilderArtifacts)

NextBuilder ==
    \/ Specialize
    \/ Build
    \/ Return

SpecBuilder == InitBuilder /\ [][NextBuilder]_vars

\* Concurrent builds: artifacts with U32 spec constants, every caller on the
\* one engine.
CacheArtifacts ==
    {KernelDesc(<<1>>, sp, <<[item |-> TRUE]>>, <<>>) :
        sp \in SeqsOf({sd \in SpecDescs : sd.scalar_type = "U32"}, 0, 1)}

InitCache == InitOf(CacheArtifacts)

NextCache ==
    \/ \E t \in Callers : BuildEnter(t)
    \/ \E t \in Callers : BuildFinish(t)
    \/ \E t \in Callers : BuildReturn(t)

SpecCache == InitCache /\ [][NextCache]_vars

\* Engines: a kernel with one item slice, built on its engine; clients wait,
\* upload and dispatch while submissions complete and devices are lost.
EngineArtifacts == {KernelDesc(<<1>>, <<>>, <<[item |-> TRUE]>>, <<>>)}

InitEngine == InitBuilt(EngineArtifacts)

NextEngine ==
    \/ \E t \in Clients : ClientWait(t)
    \/ \E t \in Clients : ClientUpload(t, TRUE)
    \/ \E t \in Clients : ClientDispatch(t, TRUE)
    \/ \E t \in Clients : ClientReturn(t)
    \/ \E e \in Engines : Progress(e)
    \/ \E e \in Engines : DeviceLostEvent(e)

SpecEngine == InitEngine /\ [][NextEngine]_vars

\* Buffers of a ready engine: one client uploads and dispatches, handles and
\* subslices are made and dropped, and the progress worker keeps running.
NextBuffer ==
    \/ ClientUpload(1, FALSE)
    \/ ClientDispatch(1, FALSE)
    \/ ClientReturn(1)
    \/ Progress(KernelEngine)
    \/ \E a \in AllocIds : CloneHandle(a)
    \/ \E a \in AllocIds : Subslice(a)
    \/ \E a \in AllocIds : DropHandle(a)
    \/ \E a \in AllocIds : DropSubslice(a)

SpecBuffer == InitEngine /\ [][NextBuffer]_vars /\ WF_vars(Progress(KernelEngine))

\* Features: contains and union over every pair of values.
InitFeatures == InitOf(EngineArtifacts)

NextFeatures ==
    \/ Contains
    \/ Union
    \/ Return

SpecFeatures == InitFeatures /\ [][NextFeatures]_vars

\* Slices: every view of a small storage, indexed inside and outside.
InitSlices == InitOf(EngineArtifacts)

NextSlices ==
    \/ SliceIndex
    \/ SliceUnsafeIndex
    \/ SliceUnsafeIndexMut
    \/ Return

SpecSlices == InitSlices /\ [][NextSlices]_vars

\* ------------------------------------------------------------------ claims

\* The slices Kernel::dispatch pairs with a slice_desc.
Paired(k, slices) == 1..Min(Len(slices), Len(k.desc.slice_descs))

\* The lengths of the slices bound to an item slice_desc.
ItemLens(k, slices) ==
    {slices[i].len : i \in {j \in Paired(k, slices) : k.desc.slice_descs[j].item}}

MinOf(S) == CHOOSE m \in S : \A n \in S : m <= n

\* ceil(a / b) over the integers.
CeilDiv(a, b) == (a + b - 1) \div b

\* Every paired slice is on the kernel's engine.
ChecksPass(k, slices) ==
    \A i \in Paired(k, slices) : slices[i].engine = Some(k.engine)

Dispatched == last.op = "dispatch" /\ last.engine_calls # <<>>

\* bytes, zero-padded up to the next multiple of 4.
Pad4(bytes) == bytes \o [i \in 1..((4 - (Len(bytes) % 4)) % 4) |-> 0]

RECURSIVE SlicePairs(_)
SlicePairs(slices) ==
    IF slices = <<>> THEN <<>>
    ELSE LEBytes(Head(slices).offset, 4) \o LEBytes(Head(slices).len, 4)
            \o SlicePairs(Tail(slices))

\* C1: a dispatch that reaches the engine with as many push constants as
\* push_descs and as many slices as slice_descs hands it the push constants'
\* as_bytes() in order, zero-padded to a multiple of 4 bytes, then one
\* (offset, len) pair of u32 per slice: push_consts_range() bytes in all.
C1_PushLayout ==
    (/\ Dispatched
     /\ Len(last.push_consts) = Len(kernel[1].desc.push_descs)
     /\ Len(last.slices) = Len(kernel[1].desc.slice_descs))
        => /\ last.engine_calls[1].push_consts =
                Pad4(FlatBytes(last.push_consts)) \o SlicePairs(last.slices)
           /\ Len(last.engine_calls[1].push_consts) = push_consts_range(kernel[1].desc)

\* C2: a dispatch whose slices pass the checks uses a preset extent unchanged;
\* with none, an item slice bound and threads.y <= 1 and threads.z <= 1, it
\* dispatches [ceil(items / threads[0]), 1, 1], items the least item slice len.
C2_GroupsPriority ==
    (last.op = "dispatch" /\ ChecksPass(kernel[1], last.slices))
        => /\ kernel[1].groups # None
                => /\ last.engine_calls # <<>>
                   /\ last.engine_calls[1].groups = kernel[1].groups[1]
           /\ (/\ kernel[1].groups = None
               /\ ItemLens(kernel[1], last.slices) # {}
               /\ ~ThreadsYZ(kernel[1].desc.threads))
                => /\ last.engine_calls # <<>>
                   /\ last.engine_calls[1].groups =
                        <<CeilDiv(MinOf(ItemLens(kernel[1], last.slices)),
                                  kernel[1].desc.threads[1]), 1, 1>>

\* C3: a dispatch that reaches the engine with an extent inferred from its
\* item slices runs at least as many threads in x, groups[0] * threads[0], as
\* the least item slice has elements.
C3_ThreadsCoverItems ==
    (/\ Dispatched
     /\ kernel[1].groups = None
     /\ ItemLens(kernel[1], last.slices) # {})
        => last.engine_calls[1].groups[1] * kernel[1].desc.threads[1]
                >= MinOf(ItemLens(kernel[1], last.slices))

\* C4: a dispatch given a host slice, or a slice of another engine, anywhere
\* in its slices fails without reaching the engine, and the error about
\* another engine names the kernel's device and the buffer's.
C4_ForeignSliceFails ==
    (/\ last.op = "dispatch"
     /\ \E i \in 1..Len(last.slices) : last.slices[i].engine # Some(kernel[1].engine))
        => /\ last.tag = "err"
           /\ last.engine_calls = <<>>
           /\ last.msg \in {"expected device, found host",
                            "expected device, found other device"}
           /\ last.msg = "expected device, found other device"
                => /\ last.device = Some(kernel[1].engine)
                   /\ last.buffer_device = last.slices[last.slice].engine

\* The spec_descs tagged with a thread dimension whose value is v.
TaggedWith(spec_consts, v) ==
    {k \in 1..Len(spec_consts) :
        desc.spec_descs[k].thread_dim # None /\ spec_consts[k] = U32(v)}

Tagged(spec_consts) ==
    {k \in 1..Len(spec_consts) : desc.spec_descs[k].thread_dim # None}

RightArityAndTypes(spec_consts) ==
    /\ Len(spec_consts) = Len(desc.spec_descs)
    /\ \A k \in 1..Len(spec_consts) :
        spec_consts[k].scalar_type = desc.spec_descs[k].scalar_type

\* C9: specialize, given values of the right arity and types, returns an
\* error naming the dimension letter when a spec tagged with a thread
\* dimension is U32(0), and else a builder whose threads[d] is v for every
\* spec tagged thread_dim = d with value U32(v).
C9_SpecializeThreads ==
    (last.op = "specialize" /\ RightArityAndTypes(last.spec_consts))
        => IF TaggedWith(last.spec_consts, 0) # {}
           THEN /\ last.tag = "err"
                /\ \E k \in TaggedWith(last.spec_consts, 0) :
                    last.msg = DimLetters[desc.spec_descs[k].thread_dim[1] + 1]
           ELSE /\ last.tag = "ok"
                /\ \A k \in Tagged(last.spec_consts) :
                    LET d == desc.spec_descs[k].thread_dim[1]
                    IN  /\ d + 1 \in DOMAIN builder.threads
                        /\ builder.threads[d + 1] = last.spec_consts[k].value

\* C10: build on a device fails with "must be specialized", the cache not
\* consulted, when spec_descs is non-empty and the builder holds no spec
\* values, and never with that error when spec_descs is empty.
C10_MustBeSpecialized ==
    (last.op = "build" /\ last.device # None)
        => /\ (desc.spec_descs # <<>> /\ builder.spec_consts = <<>>)
                => /\ last.tag = "err"
                   /\ last.msg = "must be specialized"
                   /\ ~last.consulted
                   /\ cache = last.cache_before
           /\ desc.spec_descs = <<>> => last.msg # "must be specialized"

C10_Witness ==
    /\ last.op = "build"
    /\ last.device # None
    /\ last.msg = "must be specialized"
    /\ desc.spec_descs # <<>>

\* The spec_bytes of a caller's builder: the as_bytes() of its spec values.
SpecBytes(c) == FlatBytes(c.builder[1].spec_consts)

\* The callers that hold a pipeline.
Holders == {t \in Callers : callers[t].pc = "done" /\ callers[t].tag = "ok"}

\* The runs of desc_fn for the spec_bytes sb that ended with tag.
Runs(sb, tag) ==
    {i \in 1..Len(misses) :
        FlatBytes(misses[i].builder.spec_consts) = sb /\ misses[i].tag = tag}

\* C5: of the callers building one artifact concurrently on one engine, at
\* most one at a time builds a given spec_bytes; desc_fn succeeds at most once
\* for it, exactly once when a caller holds its pipeline, and never runs again
\* after it succeeded; two callers hold the same pipeline exactly when their
\* spec_bytes are equal.
C5_BuiltOnce ==
    /\ \A t, u \in Callers :
        (t # u /\ callers[t].pc = "building" /\ callers[u].pc = "building")
            => SpecBytes(callers[t]) # SpecBytes(callers[u])
    /\ \A t \in Holders :
        Cardinality(Runs(SpecBytes(callers[t]), "ok")) = 1
    /\ \A i, j \in 1..Len(misses) :
        (i < j /\ misses[i].tag = "ok")
            => FlatBytes(misses[i].builder.spec_consts)
                    # FlatBytes(misses[j].builder.spec_consts)
    /\ \A t, u \in Holders :
        (SpecBytes(callers[t]) = SpecBytes(callers[u]))
            <=> (callers[t].pipeline = callers[u].pipeline)

\* Two callers hold the pipeline of one run of desc_fn, and the cache holds
\* another pipeline, of other spec_bytes.
C5_Witness ==
    \E t, u \in Holders :
        /\ t # u
        /\ callers[t].served > 0
        /\ callers[t].served = callers[u].served
        /\ callers[t].pipeline = callers[u].pipeline
        /\ \E e \in cache : e.key.spec_bytes # SpecBytes(callers[t])

\* C6: in the step in which the build of a key fails, every caller waiting
\* for the key gets the failure, the cache holds no entry for the key and
\* nobody holds its build slot, so that the next caller for the key builds;
\* and whoever gives up a build slot has run desc_fn.
C6_FailureNotCached ==
    [][\A t \in Callers :
        /\ (callers[t].pc = "building" /\ callers'[t].pc = "done"
                /\ callers'[t].tag = "err")
            => /\ \A u \in Callers :
                    (callers[u].pc = "waiting" /\ callers[u].key = callers[t].key)
                        => callers'[u].pc = "done" /\ callers'[u].tag = "err"
               /\ ~CacheHit(cache', callers[t].key[1])
               /\ CachedEnter(cache', slots', callers[t].key[1]) = "build"
        /\ (callers[t].pc = "building" /\ callers'[t].pc # "building")
            => Len(misses') = Len(misses) + 1]_vars

\* The build of a key failed, desc_fn ran again for the key and failed again,
\* and that run gave the failure to its builder and to a caller that waited
\* for it; the cache holds no entry for the key.
C6_Witness ==
    \E i, j \in 1..Len(misses) :
        /\ i < j
        /\ misses[i].key = misses[j].key
        /\ misses[i].tag = "err"
        /\ misses[j].tag = "err"
        /\ ~CacheHit(cache, misses[j].key)
        /\ \E t, u \in Callers :
            /\ t # u
            /\ callers[t].pc = "done" /\ callers[t].tag = "err" /\ callers[t].served = j
            /\ callers[u].pc = "done" /\ callers[u].tag = "err" /\ callers[u].served = j

\* The engine a client's call is on.
EngineOf(c) == c.device[1]

\* C7: an engine is Ready or Lost and never leaves Lost; no client stays
\* blocked in wait() on a lost engine: the step that loses the engine wakes it
\* with DeviceLost; every wait, upload and dispatch that reaches a lost engine
\* fails with DeviceLost; and every DeviceLost carries the index and handle of
\* its engine.
C7_LostIsAbsorbing ==
    /\ [](/\ \A e \in Engines : engine_state[e] \in {"Ready", "Lost"}
          /\ \A t \in Clients :
                /\ clients[t].pc = "waiting"
                    => engine_state[EngineOf(clients[t])] = "Ready"
                /\ (clients[t].pc = "done" /\ clients[t].lost_at_call
                        /\ clients[t].reached)
                    => /\ clients[t].result = "DeviceLost"
                       /\ clients[t].error = Some(DeviceLost(EngineOf(clients[t])))
                /\ clients[t].error # None
                    => clients[t].error =
                        Some([index |-> EngineIndex(EngineOf(clients[t])),
                              handle |-> EngineHandle(EngineOf(clients[t]))]))
    /\ [][/\ \A e \in Engines : engine_state[e] = "Lost" => engine_state'[e] = "Lost"
          /\ \A t \in Clients :
                (clients[t].pc = "waiting"
                    /\ engine_state'[EngineOf(clients[t])] = "Lost")
                    => /\ clients'[t].pc = "done"
                       /\ clients'[t].result = "DeviceLost"
                       /\ clients'[t].error = Some(DeviceLost(EngineOf(clients[t])))]_vars

\* A waiter woken with DeviceLost, and a later upload or dispatch on the same
\* engine that failed with the same DeviceLost.
C7_Witness ==
    \E t, u \in Clients :
        /\ clients[t].pc = "done" /\ clients[t].op = "wait"
        /\ ~clients[t].lost_at_call /\ clients[t].result = "DeviceLost"
        /\ clients[u].pc = "done" /\ clients[u].op \in {"upload", "dispatch"}
        /\ clients[u].lost_at_call /\ clients[u].reached
        /\ clients[u].error = clients[t].error
        /\ engine_state[EngineOf(clients[t])] = "Lost"

\* C8: a freed allocation has no handle and no subslice, and no pending
\* submission references it; a step that drops a handle or a subslice leaves
\* the pending submissions as they are; and a retired allocation is
\* eventually freed.
C8_DeferredRelease ==
    /\ [](\A a \in AllocIds :
            allocs[a].state = "freed"
                => /\ allocs[a].handles = 0
                   /\ allocs[a].subslices = 0
                   /\ \A e \in Engines : a \notin Referenced(queue[e]))
    /\ [][\A a \in AllocIds :
            (allocs'[a].handles < allocs[a].handles
                \/ allocs'[a].subslices < allocs[a].subslices)
                => queue' = queue]_vars
    /\ \A a \in AllocIds :
            (allocs[a].state = "retired") ~> (allocs[a].state = "freed")

\* An allocation whose last handle has dropped is kept for a pending
\* submission, and another has been freed.
C8_Witness ==
    \E a, b \in AllocIds :
        /\ allocs[a].state = "retired"
        /\ a \in Referenced(queue[KernelEngine])
        /\ allocs[b].state = "freed"

\* C11: a dispatch with no preset extent whose slices pass the checks and
\* bind an item slice fails with the error about threads.y > 1 or
\* threads.z > 1, and hands the engine nothing, when a dimension of the
\* workgroup size after the first is greater than 1.
C11_InferNeedsOneDim ==
    (/\ last.op = "dispatch"
     /\ kernel[1].groups = None
     /\ ChecksPass(kernel[1], last.slices)
     /\ ItemLens(kernel[1], last.slices) # {}
     /\ \E i \in 2..Len(kernel[1].desc.threads) : kernel[1].desc.threads[i] > 1)
        => /\ last.tag = "err"
           /\ last.msg = "threads.y > 1 or threads.z > 1"
           /\ last.engine_calls = <<>>

\* A kernel of workgroup size [1, 1, 2], with no preset extent, was
\* dispatched with an item slice and got the error.
C11_Witness ==
    /\ last.op = "dispatch"
    /\ kernel[1].groups = None
    /\ kernel[1].desc.threads = <<1, 1, 2>>
    /\ ItemLens(kernel[1], last.slices) # {}
    /\ last.msg = "threads.y > 1 or threads.z > 1"
    /\ last.engine_calls = <<>>

\* C12: a dispatch whose slices pass the checks fails with the error
\* "global_threads or groups not provided", and hands the engine nothing,
\* exactly when the kernel has no preset extent and no slice is bound to a
\* slice_desc with item = true.
C12_ExtentNotProvided ==
    (last.op = "dispatch" /\ ChecksPass(kernel[1], last.slices))
        => /\ (last.tag = "err" /\ last.msg = "global_threads or groups not provided")
                <=> (kernel[1].groups = None /\ ItemLens(kernel[1], last.slices) = {})
           /\ last.msg = "global_threads or groups not provided"
                => last.engine_calls = <<>>

\* A kernel with an item slice_desc and no preset extent was dispatched with
\* no slice, and got the error.
C12_Witness ==
    /\ last.op = "dispatch"
    /\ kernel[1].groups = None
    /\ \E i \in 1..Len(kernel[1].desc.slice_descs) : kernel[1].desc.slice_descs[i].item
    /\ last.slices = <<>>
    /\ last.msg = "global_threads or groups not provided"
    /\ last.engine_calls = <<>>

\* C13: a dispatch that reaches the engine hands it as many buffers as the
\* kernel has slice_descs, the i-th being the buffer of the i-th slice.
C13_OneBufferPerBinding ==
    Dispatched
        => /\ Len(last.engine_calls[1].buffers) = Len(kernel[1].desc.slice_descs)
           /\ \A i \in 1..Len(kernel[1].desc.slice_descs) :
                /\ i <= Len(last.slices)
                /\ last.engine_calls[1].buffers[i] = last.slices[i].buf

\* C14: a.contains(b) is true if and only if every flag set in b is set in a,
\* for all Features a and b.
C14_ContainsIsSubset ==
    last.op = "contains"
        => (last.result <=> \A f \in FeatureFlags : last.other[f] => last.self[f])

\* a.contains(b) was false for an a and a b that share shader_int8 and differ
\* in shader_float64 alone.
C14_Witness ==
    /\ last.op = "contains"
    /\ ~last.result
    /\ last.self.shader_int8 /\ last.other.shader_int8
    /\ \A f \in FeatureFlags :
        (last.other[f] /\ ~last.self[f]) <=> f = "shader_float64"

\* C15: a.union(b) equals b.union(a), a.union(a) equals a, and a.union(b)
\* contains both a and b, for all Features a and b.
C15_UnionLaws ==
    last.op = "union"
        => /\ last.result = last.swapped
           /\ last.self = last.other => last.result = last.self
           /\ \A f \in FeatureFlags : last.self[f] => last.result[f]
           /\ \A f \in FeatureFlags : last.other[f] => last.result[f]

\* The union of two Features neither of which contains the other.
C15_Witness ==
    /\ last.op = "union"
    /\ last.self.shader_int8 /\ ~last.other.shader_int8
    /\ last.other.shader_float64 /\ ~last.self.shader_float64
    /\ last.result.shader_int8 /\ last.result.shader_float64

\* C16: Kernel::global_threads(gt) sets the extent to ceil(gt[i] / threads[i])
\* in every dimension i of the kernel's workgroup size and to 1 in the others;
\* Kernel::groups(g) sets it to g in the leading dimensions and to 1 in the
\* others; a preset extent has exactly 3 components.
C16_ExtentShape ==
    /\ (kernel # None /\ kernel[1].groups # None) => Len(kernel[1].groups[1]) = ExtentDims
    /\ last.op = "global_threads"
        => /\ kernel[1].groups # None
           /\ \A i \in 1..ExtentDims :
                kernel[1].groups[1][i] =
                    IF i <= Len(kernel[1].desc.threads)
                    THEN CeilDiv(last.arg[i], kernel[1].desc.threads[i])
                    ELSE 1
    /\ last.op = "groups"
        => /\ kernel[1].groups # None
           /\ \A i \in 1..ExtentDims :
                kernel[1].groups[1][i] =
                    IF i <= Len(last.arg) THEN last.arg[i] ELSE 1

\* global_threads([3, 3]) on a kernel of workgroup size [2, 1] gave the
\* extent [2, 3, 1].
C16_Witness ==
    /\ last.op = "global_threads"
    /\ kernel[1].desc.threads = <<2, 1>>
    /\ last.arg = <<3, 3>>
    /\ kernel[1].groups = Some(<<2, 3, 1>>)

\* C17: when KernelBuilder::build runs the cache's build function, the
\* function runs specialize if and only if the builder holds a spec value or
\* its threads differ from the artifact's; otherwise it succeeds and the
\* kernel's desc is the artifact, unchanged.
C17_SpecializeWhenNeeded ==
    (last.op = "build" /\ last.ran)
        => /\ last.specialized
                <=> (builder.spec_consts # <<>> \/ builder.threads # desc.threads)
           /\ ~last.specialized
                => /\ last.tag = "ok"
                   /\ kernel # None
                   /\ kernel[1].desc = desc

\* A build ran the build function for a builder whose threads differ from
\* the artifact's, and the kernel has the builder's threads and no
\* spec_descs.
C17_Witness ==
    /\ last.op = "build"
    /\ last.ran
    /\ last.specialized
    /\ last.tag = "ok"
    /\ builder.threads # desc.threads
    /\ kernel[1].desc.threads = builder.threads
    /\ kernel[1].desc.spec_descs = <<>>

\* C18: push_consts_range() is the sum of the byte sizes of the push_descs'
\* scalar types, rounded up to a multiple of 4, plus 8 per slice_desc, and is
\* a multiple of 4.
C18_PushConstsRange ==
    kernel # None
        => /\ push_consts_range(kernel[1].desc) =
                4 * CeilDiv(SumSizes(kernel[1].desc.push_descs), 4)
                    + 8 * Len(kernel[1].desc.slice_descs)
           /\ push_consts_range(kernel[1].desc) % 4 = 0

\* A kernel with push constants of 1 and 8 bytes and two slices: 12 + 16.
C18_Witness ==
    /\ kernel # None
    /\ kernel[1].desc.push_descs = <<[scalar_type |-> "U8"], [scalar_type |-> "U64"]>>
    /\ Len(kernel[1].desc.slice_descs) = 2
    /\ push_consts_range(kernel[1].desc) = 28

\* The 32-bit words of bytes, 4 bytes a word, in order.
WordsOf(bytes) ==
    [i \in 1..(Len(bytes) \div 4) |-> WordOf(SubSeq(bytes, 4 * i - 3, 4 * i))]

\* C19: a build that runs specialize completes, and the literal operands of
\* the SpecConstant decorated SpecId k are the words of
\* spec_values[k].as_bytes(): one word for a 32-bit value, the low word then
\* the high word for a 64-bit one.
C19_SpecConstantsRewritten ==
    (last.op = "build" /\ last.specialized)
        => /\ last.tag = "ok"
           /\ kernel # None
           /\ \A k \in 1..Len(builder.spec_consts) :
                kernel[1].desc.spirv[k] = WordsOf(as_bytes(builder.spec_consts[k]))

\* The specs of the artifact tagged with the thread dimension d.
TaggedDim(d) ==
    {k \in 1..Len(desc.spec_descs) : desc.spec_descs[k].thread_dim = Some(d)}

\* The greatest element of a set of numbers.
MaxOf(S) == CHOOSE m \in S : \A n \in S : n <= m

\* C20: after any calls of specialize on the builder from_bytes returned,
\* each replacing the builder when it succeeds, the builder's spec values are
\* those of the last successful call, threads[d] is the value that call gave
\* to the last spec tagged thread_dim = d, and a dimension no spec is tagged
\* with has the artifact's default; a call that fails leaves the builder it
\* was cloned from as it was.
C20_SpecializeReplaces ==
    /\ Len(builder.threads) = Len(desc.threads)
    /\ builder.spec_consts = <<>> => builder.threads = desc.threads
    /\ builder.spec_consts # <<>>
        => /\ Len(builder.spec_consts) = Len(desc.spec_descs)
           /\ \A d \in 0..(Len(builder.threads) - 1) :
                builder.threads[d + 1] =
                    IF TaggedDim(d) # {}
                    THEN builder.spec_consts[MaxOf(TaggedDim(d))].value
                    ELSE desc.threads[d + 1]
    /\ (last.op = "specialize" /\ last.tag = "ok")
        => builder.spec_consts = last.spec_consts
    /\ (last.op = "specialize" /\ last.tag # "ok") => builder = last.before

\* A builder specialized before was specialized again, with other values:
\* its spec values and threads changed, and a dimension without a spec kept
\* the default.
C20_Witness ==
    /\ last.op = "specialize"
    /\ last.tag = "ok"
    /\ last.before.spec_consts # <<>>
    /\ last.before.spec_consts # last.spec_consts
    /\ builder.spec_consts = last.spec_consts
    /\ builder.threads # last.before.threads
    /\ \E d \in 0..(Len(builder.threads) - 1) :
        TaggedDim(d) = {} /\ builder.threads[d + 1] = desc.threads[d + 1]

\* The errors of the checks Kernel::dispatch makes itself.
ValidationErrors ==
    {"expected device, found host", "expected device, found other device",
     "threads.y > 1 or threads.z > 1", "global_threads or groups not provided"}

\* C21: a dispatch calls the engine's dispatch at most once, and only when
\* every slice it pairs with a slice_desc has passed the host and engine
\* checks and the extent is resolved; when it returns one of its validation
\* errors the engine has been handed nothing; and it leaves the kernel, its
\* preset groups included, as it was.
C21_ValidateThenSubmit ==
    /\ [](last.op = "dispatch"
            => /\ Len(last.engine_calls) <= 1
               /\ last.engine_calls # <<>>
                    => /\ ChecksPass(kernel[1], last.slices)
                       /\ \/ kernel[1].groups # None
                          \/ /\ ItemLens(kernel[1], last.slices) # {}
                             /\ \A i \in 2..Len(kernel[1].desc.threads) :
                                    kernel[1].desc.threads[i] <= 1
               /\ (last.tag = "err" /\ last.msg \in ValidationErrors)
                    => last.engine_calls = <<>>
               /\ (~ChecksPass(kernel[1], last.slices))
                    => last.tag = "err" /\ last.msg \in ValidationErrors)
    /\ [][last'.op = "dispatch" => kernel' = kernel]_vars

\* A kernel with a preset extent was dispatched with a host slice: it got the
\* error, the engine got nothing, and the extent is still preset.
C21_Witness ==
    /\ last.op = "dispatch"
    /\ kernel[1].groups # None
    /\ last.msg = "expected device, found host"
    /\ last.engine_calls = <<>>

IndexOps == {"index", "unsafe_index", "unsafe_index_mut"}

\* C22: indexing a slice view of length len with index < len gives the
\* element at position offset + index of the storage; with index >= len it
\* panics and no element is accessed; so every access is at a position in
\* [offset, offset + len).
C22_IndexInBounds ==
    last.op \in IndexOps
        => /\ IF last.index < last.len
              THEN /\ last.tag = "ok"
                   /\ last.pos = Some(last.offset + last.index)
                   /\ last.value = Some(last.storage[last.offset + last.index + 1])
              ELSE /\ last.tag = "panic"
                   /\ last.pos = None
                   /\ last.value = None
           /\ last.pos # None
                => /\ last.offset <= last.pos[1]
                   /\ last.pos[1] < last.offset + last.len

\* unsafe_index with index = len on a view that ends before its storage does,
\* at an offset other than 0: it panicked and accessed nothing.
C22_Witness ==
    /\ last.op = "unsafe_index"
    /\ last.offset > 0
    /\ last.index = last.len
    /\ last.offset + last.len < Len(last.storage)
    /\ last.tag = "panic"
    /\ last.pos = None

====
